---------------------------- MODULE Spec2Model ----------------------------
(***************************************************************************)
(* Hospital Appointment System (hospital_api.py).                          *)
(*                                                                         *)
(* The program keeps one module-level dictionary, APPOINTMENTS, and        *)
(* exposes seven request handlers.  Two specifications are given:          *)
(*                                                                         *)
(*   Spec      every handler runs to completion as one step (one request   *)
(*             at a time);                                                 *)
(*   SpecConc  reschedule_appointment runs in several worker threads, its  *)
(*             membership check, its date write and its slot write being   *)
(*             separate steps that interleave freely.                      *)
(***************************************************************************)
EXTENDS Integers, FiniteSets, Sequences, TLC

(***************************************************************************)
(* Program constants.                                                      *)
(***************************************************************************)
ALLOWED_PATIENTS == {"P001", "P002", "P003", "P004"}

\* The keys of ALLOWED_DOCTORS in the dictionary's (insertion) order.
DoctorOrder == <<"D101", "D102", "D103", "D104">>

ALLOWED_DOCTORS ==
  [d \in {"D101", "D102", "D103", "D104"} |->
     CASE d = "D101" -> [name |-> "Dr. Alice", specialty |-> "Cardiologist"]
       [] d = "D102" -> [name |-> "Dr. Bob",   specialty |-> "Dermatologist"]
       [] d = "D103" -> [name |-> "Dr. Clara", specialty |-> "Neurologist"]
       [] d = "D104" -> [name |-> "Dr. David", specialty |-> "Orthopedic"]]

BOOKING_SLOTS == {"10:00 AM", "11:30 AM", "2:00 PM", "4:00 PM"}

\* Variant: the reschedule list is a copy of the booking list.
RescheduleSlotsCopied == {"10:00 AM", "11:30 AM", "2:00 PM", "4:00 PM"}

RESCHEDULE_SLOTS == {"9:30 AM", "12:00 PM", "3:00 PM", "5:30 PM"}

HTTP_200_OK == 200

HTTP_400_BAD_REQUEST == 400

HTTP_404_NOT_FOUND == 404

\* random.randint(1000, 9999): the lowest number an appointment id can carry.
MinIdNumber == 1000

(***************************************************************************)
(* Bounds of the model.                                                    *)
(***************************************************************************)
\* How many of the 9000 numbers random.randint(1000, 9999) can return are
\* drawn in the model: MinIdNumber .. MinIdNumber + NumIds - 1.
NumIds == 2

\* Number of worker threads serving reschedule requests in SpecConc.
NumThreads == 2

(***************************************************************************)
(* Request inputs.  Every field of a request body is a caller-chosen       *)
(* value; the sets below hold members and non-members of each directory.   *)
(***************************************************************************)
PatientInputs == {"P001", "P002", "P999"}

DoctorInputs == {"D101", "D999"}

\* booking.date
BookDateInputs == {"2024-05-01"}

\* reschedule.new_date
DateInputs == {"2024-05-01", "2024-05-02"}

SpecialtyInputs == {"CARDIOLOGIST", "Surgeon"}

\* A float is either a number or NaN; NaN compares false with everything.
NaN == [nan |-> TRUE, val |-> 0]

Float(n) == [nan |-> FALSE, val |-> n]

AmountInputs == {Float(-5), Float(0), Float(5), NaN}

\* f"A{n}"
AppointmentId(n) == "A" \o ToString(n)

IdNumbers == MinIdNumber .. (MinIdNumber + NumIds - 1)

\* The appointment ids random.randint can produce within the bound.
DrawAppointmentIds == {AppointmentId(n) : n \in IdNumbers}

\* An appointment id no booking can have returned.
UnknownAppointmentId == "A0000"

AppointmentIdInputs == DrawAppointmentIds \cup {UnknownAppointmentId}

Threads == 1 .. NumThreads

(***************************************************************************)
(* The conditions and assignments of the handlers.                         *)
(***************************************************************************)
\* patient_id in ALLOWED_PATIENTS
PatientAllowed(patient_id) == patient_id \in ALLOWED_PATIENTS

\* Variant: the doctor check is left out.
DoctorAllowedUnchecked(doctor_id) == TRUE

\* doctor_id in ALLOWED_DOCTORS
DoctorAllowed(doctor_id) == doctor_id \in DOMAIN ALLOWED_DOCTORS

\* Variant: the membership check is left out.
AppointmentExistsUnchecked(A, appointment_id) == TRUE

\* reschedule.appointment_id in APPOINTMENTS
AppointmentExists(A, appointment_id) == appointment_id \in DOMAIN A

\* Variant: payment.amount < 0.
LtZero(amount) == ~amount.nan /\ amount.val < 0

\* payment.amount <= 0
LeZero(amount) == ~amount.nan /\ amount.val <= 0

\* str.lower() on the specialty strings that occur.
Lower(s) ==
  CASE s = "Cardiologist"  -> "cardiologist"
    [] s = "CARDIOLOGIST"  -> "cardiologist"
    [] s = "Dermatologist" -> "dermatologist"
    [] s = "Neurologist"   -> "neurologist"
    [] s = "Orthopedic"    -> "orthopedic"
    [] s = "Surgeon"       -> "surgeon"

\* APPOINTMENTS = {}
EmptyRegistry ==
  [k \in {} |-> [patient_id |-> "", doctor_id |-> "", date |-> "", slot |-> ""]]

\* Variant: the dictionary is rebuilt with the new record alone.
SetItemFresh(A, appointment_id, rec) == [k \in {appointment_id} |-> rec]

\* APPOINTMENTS[appointment_id] = {...}
SetItem(A, appointment_id, rec) ==
  [k \in DOMAIN A \cup {appointment_id} |-> IF k = appointment_id THEN rec ELSE A[k]]

\* Variant: the date is written to every record.
SetDateAll(A, appointment_id, new_date) ==
  [k \in DOMAIN A |-> [A[k] EXCEPT !.date = new_date]]

\* APPOINTMENTS[reschedule.appointment_id]["date"] = reschedule.new_date
SetDate(A, appointment_id, new_date) ==
  [A EXCEPT ![appointment_id].date = new_date]

\* Variant: the slot is written under the "date" key.
SetSlotWrongKey(A, appointment_id, new_slot) ==
  [A EXCEPT ![appointment_id].date = new_slot]

\* APPOINTMENTS[reschedule.appointment_id]["slot"] = new_slot
SetSlot(A, appointment_id, new_slot) ==
  [A EXCEPT ![appointment_id].slot = new_slot]

\* raise HTTPException(status_code=..., detail=...)
HTTPException(op, status_code, detail) ==
  [op |-> op, status |-> status_code, detail |-> detail]

(***************************************************************************)
(* State.                                                                  *)
(***************************************************************************)
VARIABLES
  APPOINTMENTS,   \* the dictionary: appointment id -> record
  response,       \* what the last handler returned or raised
  returned,       \* history: the ids successful bookings have returned
  rescheduled,    \* history: ids rescheduled since book_appointment last wrote them
  thread          \* SpecConc: each worker's position in reschedule_appointment

vars == <<APPOINTMENTS, response, returned, rescheduled, thread>>

NoResponse == [op |-> "none", status |-> 0]

\* A worker that has not been handed a request.
IdleThread == [pc |-> "idle", appointment_id |-> "", new_date |-> "", new_slot |-> ""]

Init ==
  /\ APPOINTMENTS = EmptyRegistry
  /\ response = NoResponse
  /\ returned = {}
  /\ rescheduled = {}
  /\ thread = [t \in Threads |-> IdleThread]

(***************************************************************************)
(* Handlers, one step each.                                                *)
(***************************************************************************)
validate_patient(patient_id) ==
  /\ response' =
       IF PatientAllowed(patient_id)
       THEN [op |-> "validate_patient", status |-> HTTP_200_OK,
             message |-> "Patient ID is valid!", patient_id |-> patient_id]
       ELSE [op |-> "validate_patient", status |-> HTTP_200_OK,
             message |-> "Patient ID is invalid!"]
  /\ UNCHANGED <<APPOINTMENTS, returned, rescheduled, thread>>

re_validate_patient(patient_id) ==
  /\ response' =
       IF PatientAllowed(patient_id)
       THEN [op |-> "re_validate_patient", status |-> HTTP_200_OK,
             message |-> "Re-entered Patient ID is valid!", patient_id |-> patient_id]
       ELSE [op |-> "re_validate_patient", status |-> HTTP_200_OK,
             message |-> "Re-entered Patient ID is invalid!"]
  /\ UNCHANGED <<APPOINTMENTS, returned, rescheduled, thread>>

view_doctors(specialty) ==
  LET Matches(doc_id) == Lower(ALLOWED_DOCTORS[doc_id].specialty) = Lower(specialty)
      matching == SelectSeq(DoctorOrder, Matches)
      doctors == [i \in 1 .. Len(matching) |->
                    [doctor_id |-> matching[i],
                     name |-> ALLOWED_DOCTORS[matching[i]].name,
                     specialty |-> ALLOWED_DOCTORS[matching[i]].specialty]]
  IN /\ response' =
          IF doctors = << >>
          THEN [op |-> "view_doctors", status |-> HTTP_200_OK,
                message |-> "No doctors available for specialty: " \o specialty]
          ELSE [op |-> "view_doctors", status |-> HTTP_200_OK,
                available_doctors |-> doctors]
     /\ UNCHANGED <<APPOINTMENTS, returned, rescheduled, thread>>

re_verify_doctor(doctor_id) ==
  /\ response' =
       IF DoctorAllowed(doctor_id)
       THEN [op |-> "re_verify_doctor", status |-> HTTP_200_OK,
             message |-> "Re-entered Doctor ID is valid!", doctor_id |-> doctor_id]
       ELSE [op |-> "re_verify_doctor", status |-> HTTP_200_OK,
             message |-> "Re-entered Doctor ID is invalid!"]
  /\ UNCHANGED <<APPOINTMENTS, returned, rescheduled, thread>>

book_appointment(patient_id, doctor_id, date) ==
  /\ IF ~PatientAllowed(patient_id)
     THEN /\ response' = HTTPException("book_appointment", HTTP_404_NOT_FOUND,
                                       "Patient ID not found.")
          /\ UNCHANGED <<APPOINTMENTS, returned, rescheduled>>
     ELSE IF ~DoctorAllowed(doctor_id)
     THEN /\ response' = HTTPException("book_appointment", HTTP_404_NOT_FOUND,
                                       "Doctor ID not found.")
          /\ UNCHANGED <<APPOINTMENTS, returned, rescheduled>>
     ELSE \E appointment_id \in DrawAppointmentIds, slot \in BOOKING_SLOTS :
            /\ APPOINTMENTS' = SetItem(APPOINTMENTS, appointment_id,
                                       [patient_id |-> patient_id,
                                        doctor_id |-> doctor_id,
                                        date |-> date,
                                        slot |-> slot])
            /\ response' = [op |-> "book_appointment", status |-> HTTP_200_OK,
                            message |-> "Appointment booked successfully!",
                            appointment_id |-> appointment_id,
                            patient_id |-> patient_id,
                            doctor_id |-> doctor_id,
                            date |-> date,
                            slot |-> slot]
            /\ returned' = returned \cup {appointment_id}
            /\ rescheduled' = rescheduled \ {appointment_id}
  /\ UNCHANGED thread

reschedule_appointment(appointment_id, new_date) ==
  /\ IF ~AppointmentExists(APPOINTMENTS, appointment_id)
     THEN /\ response' = HTTPException("reschedule_appointment", HTTP_404_NOT_FOUND,
                                       "Appointment not found.")
          /\ UNCHANGED <<APPOINTMENTS, rescheduled>>
     ELSE \E new_slot \in RESCHEDULE_SLOTS :
            /\ APPOINTMENTS' =
                 SetSlot(SetDate(APPOINTMENTS, appointment_id, new_date),
                         appointment_id, new_slot)
            /\ response' = [op |-> "reschedule_appointment", status |-> HTTP_200_OK,
                            message |-> "Appointment rescheduled successfully!",
                            appointment_id |-> appointment_id,
                            new_date |-> new_date,
                            new_slot |-> new_slot]
            /\ rescheduled' = rescheduled \cup {appointment_id}
  /\ UNCHANGED <<returned, thread>>

pay_consultation(patient_id, amount) ==
  /\ response' =
       IF ~PatientAllowed(patient_id)
       THEN HTTPException("pay_consultation", HTTP_404_NOT_FOUND, "Patient ID not found.")
       ELSE IF LeZero(amount)
       THEN HTTPException("pay_consultation", HTTP_400_BAD_REQUEST,
                          "Payment amount must be greater than zero.")
       ELSE [op |-> "pay_consultation", status |-> HTTP_200_OK,
             message |-> "Payment successful!",
             patient_id |-> patient_id,
             amount_paid |-> amount]
  /\ UNCHANGED <<APPOINTMENTS, returned, rescheduled, thread>>

ValidatePatient == \E p \in PatientInputs : validate_patient(p)

ReValidatePatient == \E p \in PatientInputs : re_validate_patient(p)

ViewDoctors == \E s \in SpecialtyInputs : view_doctors(s)

ReVerifyDoctor == \E d \in DoctorInputs : re_verify_doctor(d)

BookAppointment ==
  \E p \in PatientInputs, d \in DoctorInputs, dt \in BookDateInputs :
    book_appointment(p, d, dt)

RescheduleAppointment ==
  \E a \in AppointmentIdInputs, dt \in DateInputs : reschedule_appointment(a, dt)

PayConsultation == \E p \in PatientInputs, a \in AmountInputs : pay_consultation(p, a)

Next ==
  \/ ValidatePatient
  \/ ReValidatePatient
  \/ ViewDoctors
  \/ ReVerifyDoctor
  \/ BookAppointment
  \/ RescheduleAppointment
  \/ PayConsultation

Spec == Init /\ [][Next]_vars

(***************************************************************************)
(* reschedule_appointment in concurrent worker threads.  The run starts    *)
(* from a dictionary holding one booked appointment; each worker serves    *)
(* one request.  A worker's answer is kept in its thread record: pc        *)
(* "raised" is the 404, pc "returned" the 200 with new_date and new_slot.  *)
(***************************************************************************)
BookedId == AppointmentId(MinIdNumber)

InitConc ==
  \E slot \in BOOKING_SLOTS :
    /\ APPOINTMENTS = SetItem(EmptyRegistry, BookedId,
                              [patient_id |-> "P001", doctor_id |-> "D101",
                               date |-> "2024-05-01", slot |-> slot])
    /\ response = [op |-> "book_appointment", status |-> HTTP_200_OK,
                   message |-> "Appointment booked successfully!",
                   appointment_id |-> BookedId,
                   patient_id |-> "P001",
                   doctor_id |-> "D101",
                   date |-> "2024-05-01",
                   slot |-> slot]
    /\ returned = {BookedId}
    /\ rescheduled = {}
    /\ thread = [t \in Threads |-> IdleThread]

\* The membership check and the draw of new_slot.
reschedule_check(t, appointment_id, new_date) ==
  /\ thread[t].pc = "idle"
  /\ IF ~AppointmentExists(APPOINTMENTS, appointment_id)
     THEN thread' = [thread EXCEPT ![t] = [IdleThread EXCEPT !.pc = "raised"]]
     ELSE \E new_slot \in RESCHEDULE_SLOTS :
            thread' = [thread EXCEPT ![t] = [pc |-> "checked",
                                             appointment_id |-> appointment_id,
                                             new_date |-> new_date,
                                             new_slot |-> new_slot]]
  /\ UNCHANGED <<APPOINTMENTS, response, returned, rescheduled>>

\* The write of the date.
reschedule_write_date(t) ==
  /\ thread[t].pc = "checked"
  /\ APPOINTMENTS' = SetDate(APPOINTMENTS, thread[t].appointment_id, thread[t].new_date)
  /\ thread' = [thread EXCEPT ![t].pc = "date_written"]
  /\ UNCHANGED <<response, returned, rescheduled>>

\* The write of the slot, and the return.
reschedule_write_slot(t) ==
  /\ thread[t].pc = "date_written"
  /\ APPOINTMENTS' = SetSlot(APPOINTMENTS, thread[t].appointment_id, thread[t].new_slot)
  /\ thread' = [thread EXCEPT ![t].pc = "returned"]
  /\ rescheduled' = rescheduled \cup {thread[t].appointment_id}
  /\ UNCHANGED <<response, returned>>

RescheduleCheck ==
  \E t \in Threads, a \in AppointmentIdInputs, dt \in DateInputs :
    reschedule_check(t, a, dt)

RescheduleWriteDate == \E t \in Threads : reschedule_write_date(t)

RescheduleWriteSlot == \E t \in Threads : reschedule_write_slot(t)

NextConc ==
  \/ RescheduleCheck
  \/ RescheduleWriteDate
  \/ RescheduleWriteSlot

SpecConc == InitConc /\ [][NextConc]_vars

(***************************************************************************)
(* Properties.                                                             *)
(***************************************************************************)
\* The requests a property quantifies over.
ValidPatient(p) == p \in ALLOWED_PATIENTS

ValidDoctor(d) == d \in DOMAIN ALLOWED_DOCTORS

NonPositive(a) == ~a.nan /\ a.val <= 0

Positive(a) == ~a.nan /\ a.val > 0

Size(A) == Cardinality(DOMAIN A)

\* The step ends with the 200 answer of reschedule_appointment.
RescheduleReturned ==
  response'.op = "reschedule_appointment" /\ response'.status = HTTP_200_OK

\* The step ends with an answer of pay_consultation.
PaymentAnswered == response'.op = "pay_consultation"

\* C1: the appointment_id a successful book_appointment returns differs from
\* the appointment_id of every earlier successful book_appointment.
C1_FreshAppointmentId ==
  [][\A p \in PatientInputs, d \in DoctorInputs, dt \in BookDateInputs :
       (book_appointment(p, d, dt) /\ response'.status = HTTP_200_OK)
         => response'.appointment_id \notin returned]_vars

\* C2: a book_appointment with an allowed patient and an allowed doctor
\* makes APPOINTMENTS exactly one record larger.
C2_BookAddsOneRecord ==
  [][\A p \in PatientInputs, d \in DoctorInputs, dt \in BookDateInputs :
       (book_appointment(p, d, dt) /\ ValidPatient(p) /\ ValidDoctor(d))
         => Size(APPOINTMENTS') = Size(APPOINTMENTS) + 1]_vars

\* C3: the patient_id and the doctor_id stored under an appointment_id never
\* change, and the appointment_id stays.
C3_PatientDoctorImmutable ==
  [][\A k \in DOMAIN APPOINTMENTS :
       /\ k \in DOMAIN APPOINTMENTS'
       /\ APPOINTMENTS'[k].patient_id = APPOINTMENTS[k].patient_id
       /\ APPOINTMENTS'[k].doctor_id = APPOINTMENTS[k].doctor_id]_vars

\* C4: every appointment_id a booking has returned stays a key of
\* APPOINTMENTS, and reschedule_appointment on it never ends in 404.
C4_ReturnedIdRetrievable ==
  /\ [](returned \subseteq DOMAIN APPOINTMENTS)
  /\ [][\A a \in returned, dt \in DateInputs :
          ~(response'.status = HTTP_404_NOT_FOUND /\ reschedule_appointment(a, dt))]_vars

C4_Witness ==
  /\ response.op = "reschedule_appointment"
  /\ response.status = HTTP_200_OK
  /\ response.appointment_id \in returned
  /\ Size(APPOINTMENTS) >= 2

\* C5: a book_appointment whose patient_id is not allowed or whose doctor_id
\* is not allowed ends in 404 and leaves APPOINTMENTS as it was.
C5_BookUnknownIsNotFound ==
  [][\A p \in PatientInputs, d \in DoctorInputs, dt \in BookDateInputs :
       ((~ValidPatient(p) \/ ~ValidDoctor(d)) /\ book_appointment(p, d, dt))
         => /\ response'.status = HTTP_404_NOT_FOUND
            /\ APPOINTMENTS' = APPOINTMENTS]_vars

C5_Witness ==
  /\ response.op = "book_appointment"
  /\ response.status = HTTP_404_NOT_FOUND
  /\ Size(APPOINTMENTS) >= 1

\* C6: a reschedule_appointment whose appointment_id is not a key of
\* APPOINTMENTS ends in 404 and leaves every record and the keys as they were.
C6_RescheduleUnknownIsNotFound ==
  [][\A a \in AppointmentIdInputs, dt \in DateInputs :
       (a \notin DOMAIN APPOINTMENTS /\ reschedule_appointment(a, dt))
         => /\ response'.status = HTTP_404_NOT_FOUND
            /\ APPOINTMENTS' = APPOINTMENTS]_vars

C6_Witness ==
  /\ response.op = "reschedule_appointment"
  /\ response.status = HTTP_404_NOT_FOUND
  /\ Size(APPOINTMENTS) >= 1

\* C7: a successful reschedule_appointment(a, dt), which answers 200 with
\* appointment_id a and new_date dt, sets the date of record a to dt and its
\* slot to a slot of the reschedule list that is no booking slot; the
\* patient_id and doctor_id of a, every other record and the number of records
\* stay.
C7_RescheduleFrame ==
  [][RescheduleReturned =>
       LET a == response'.appointment_id
           dt == response'.new_date
       IN /\ DOMAIN APPOINTMENTS' = DOMAIN APPOINTMENTS
          /\ a \in DOMAIN APPOINTMENTS
          /\ APPOINTMENTS'[a].date = dt
          /\ APPOINTMENTS'[a].slot \in
               {"9:30 AM", "12:00 PM", "3:00 PM", "5:30 PM"}
          /\ APPOINTMENTS'[a].slot \notin
               {"10:00 AM", "11:30 AM", "2:00 PM", "4:00 PM"}
          /\ APPOINTMENTS'[a].patient_id = APPOINTMENTS[a].patient_id
          /\ APPOINTMENTS'[a].doctor_id = APPOINTMENTS[a].doctor_id
          /\ \A k \in DOMAIN APPOINTMENTS \ {a} :
               APPOINTMENTS'[k] = APPOINTMENTS[k]]_vars

C7_Witness ==
  /\ response.op = "reschedule_appointment"
  /\ response.status = HTTP_200_OK
  /\ Size(APPOINTMENTS) >= 2
  /\ response.new_date = "2024-05-02"
  /\ APPOINTMENTS[response.appointment_id].date = response.new_date
  /\ APPOINTMENTS[response.appointment_id].slot = response.new_slot
  /\ \E k \in DOMAIN APPOINTMENTS :
       /\ k # response.appointment_id
       /\ APPOINTMENTS[k].date = "2024-05-01"

\* C8 as stated: pay_consultation with amount <= 0 ends in 400 whatever the
\* patient_id; with amount > 0 and an allowed patient_id it succeeds and
\* returns amount_paid equal to the amount.
C8_NonPositiveAmountIsBadRequest ==
  [][\A p \in PatientInputs, a \in AmountInputs :
       pay_consultation(p, a)
         => /\ NonPositive(a) => response'.status = HTTP_400_BAD_REQUEST
            /\ (Positive(a) /\ ValidPatient(p))
                 => /\ response'.status = HTTP_200_OK
                    /\ response'.amount_paid = a]_vars

\* C8 as amended: pay_consultation with an allowed patient_id and amount <= 0
\* ends in 400; with a patient_id that is not allowed it ends in 404 whatever
\* the amount; with amount > 0 and an allowed patient_id it succeeds and
\* returns amount_paid equal to the amount.
C8_PaymentOutcome ==
  [][\A p \in PatientInputs, a \in AmountInputs :
       (PaymentAnswered /\ pay_consultation(p, a))
         => /\ (NonPositive(a) /\ ValidPatient(p))
                 => response'.status = HTTP_400_BAD_REQUEST
            /\ ~ValidPatient(p) => response'.status = HTTP_404_NOT_FOUND
            /\ (Positive(a) /\ ValidPatient(p))
                 => /\ response'.status = HTTP_200_OK
                    /\ response'.amount_paid = a]_vars

C8_Witness ==
  /\ response.op = "pay_consultation"
  /\ response.status = HTTP_400_BAD_REQUEST

\* C9: every stored record has an allowed patient_id, an allowed doctor_id
\* and a slot of the booking list or of the reschedule list; the slot is a
\* booking slot exactly when no reschedule has succeeded on the record since
\* book_appointment last wrote it.
C9_RecordsWellFormed ==
  \A k \in DOMAIN APPOINTMENTS :
    /\ ValidPatient(APPOINTMENTS[k].patient_id)
    /\ ValidDoctor(APPOINTMENTS[k].doctor_id)
    /\ APPOINTMENTS[k].slot \in BOOKING_SLOTS \cup RESCHEDULE_SLOTS
    /\ APPOINTMENTS[k].slot \in BOOKING_SLOTS <=> k \notin rescheduled

C9_Witness ==
  /\ \E k \in DOMAIN APPOINTMENTS :
       k \in rescheduled /\ APPOINTMENTS[k].slot \in RESCHEDULE_SLOTS
  /\ \E k \in DOMAIN APPOINTMENTS :
       k \notin rescheduled /\ APPOINTMENTS[k].slot \in BOOKING_SLOTS

\* The reschedule calls the workers have accepted for appointment_id a.
Calls(a) == {t \in Threads : thread[t].pc \in {"checked", "date_written", "returned"}
                              /\ thread[t].appointment_id = a}

\* Two or more calls on a were made and every one of them has returned.
AllReturned(a) ==
  /\ Cardinality(Calls(a)) >= 2
  /\ \A t \in Calls(a) : thread[t].pc = "returned"

\* C10 as stated: once all concurrent reschedule calls on one appointment_id
\* have returned, the stored (date, slot) is the (new_date, new_slot) of one
\* of them.
C10_RecordOfOneCall ==
  \A a \in DOMAIN APPOINTMENTS :
    AllReturned(a) =>
      \E t \in Calls(a) : /\ APPOINTMENTS[a].date = thread[t].new_date
                          /\ APPOINTMENTS[a].slot = thread[t].new_slot

\* C10 as amended: once all concurrent reschedule calls on one appointment_id
\* have returned, the stored date is the new_date of one of them and the
\* stored slot is the new_slot of one of them, not necessarily the same one.
C10_FieldsOfSomeCalls ==
  \A a \in DOMAIN APPOINTMENTS :
    AllReturned(a) =>
      /\ \E t \in Calls(a) : APPOINTMENTS[a].date = thread[t].new_date
      /\ \E t \in Calls(a) : APPOINTMENTS[a].slot = thread[t].new_slot

\* Two calls have returned and the record holds the date of one and the slot
\* of the other.
C10_Witness ==
  \E a \in DOMAIN APPOINTMENTS :
    /\ AllReturned(a)
    /\ \A t \in Calls(a) : \/ APPOINTMENTS[a].date # thread[t].new_date
                           \/ APPOINTMENTS[a].slot # thread[t].new_slot

=============================================================================
